---- MODULE Spec2Model ----
(***************************************************************************)
(* Model of scripts/transfer_headlines.py (Plantz Editorial Pipeline,      *)
(* Headline Transfer v3.1): one run of main() is a sequence of HTTP calls  *)
(* against two Airtable tables, the Headline Queue and Articles, followed  *)
(* by an optional Discord notification.  Every HTTP call is one step and   *)
(* may fail (raise_for_status raising); a failed call leaves the tables    *)
(* as they were.                                                           *)
(***************************************************************************)
EXTENDS Integers, Sequences, FiniteSets, TLC

\* ---- bounds of the model ------------------------------------------------
NumHeadlines == 2
MaxRuns == 2
PageSize == 1

\* ---- program constants --------------------------------------------------
DefaultWordCount == 1000
DefaultPriority == 1
NoId == 0

HeadlineIds == 1..NumHeadlines
Procs == {1, 2}
SeqProcs == {1}

VARIABLES
  headlines,        \* Headline Queue table: record id -> fields
  articles,         \* Articles table: sequence of [id, fields], in creation order
  runs,             \* number of runs started so far
  pc,               \* position of each run inside main()
  DRY_RUN,          \* "--dry-run" in sys.argv, per run
  DISCORD_WEBHOOK,  \* whether DISCORD_WEBHOOK_NOTIFICATIONS is set, per run
  all_records,      \* airtable_get: records accumulated so far
  offset,           \* airtable_get: TRUE when the last page carried a cursor
  remaining,        \* server side of the cursor: records not yet returned
  approved,         \* main: the fetched approved headlines
  existing_ids,     \* main: headline_queue_id values found in Articles
  new_headlines,    \* main: approved headlines not yet transferred
  skipped,          \* main: approved headlines already transferred
  idx,              \* index of the current row in the loop being executed
  article,          \* main: the record returned by the last create
  created_articles, \* main: articles whose create and update both succeeded
  calls,            \* history: the HTTP calls of the current run, in order
  startHeadlines,   \* history: Headline Queue when the current run began to read it
  startArticles,    \* history: Articles when the current run started
  prevRun,          \* history: how the previous run went
  prevLeft,         \* history: headlines the previous run read as approved and
                    \*          left without an Article
  addedSince,       \* history: a headline was approved since the last run began to read
  addedBetween,     \* history: a headline was approved between the previous run's
                    \*          read of the Headline Queue and the current run's
  message,          \* history: the titles in the notification request of the run
  overlap,          \* history: two runs have been in progress at the same time
  settled,          \* environment: no more approvals, runs keep coming
  reliable          \* environment: no call fails, no run is a dry run

tables == <<headlines, articles>>
fetchVars == <<all_records, offset, remaining>>
mainVars == <<approved, existing_ids, new_headlines, skipped, idx, article,
              created_articles>>
runVars == <<runs, DRY_RUN, DISCORD_WEBHOOK, startHeadlines, startArticles>>
histVars == <<prevRun, prevLeft, addedSince, addedBetween, message, overlap, settled,
              reliable>>
vars == <<headlines, articles, runs, pc, DRY_RUN, DISCORD_WEBHOOK,
          all_records, offset, remaining, approved, existing_ids,
          new_headlines, skipped, idx, article, created_articles, calls,
          startHeadlines, startArticles, prevRun, prevLeft, addedSince,
          addedBetween, message, overlap, settled, reliable>>

\* ---- dictionaries (Python dict / Airtable fields) -------------------------
EmptyDict == [k \in {} |-> NoId]

\* dict.get(key, default)
Get(f, k, d) == IF k \in DOMAIN f THEN f[k] ELSE d

\* PATCH semantics: the fields sent replace the stored ones, the rest stay
Merge(new, old) ==
  [k \in DOMAIN new \cup DOMAIN old |-> IF k \in DOMAIN new THEN new[k] ELSE old[k]]

Restrict(f, ks) == [k \in DOMAIN f \cap ks |-> f[k]]

Min(a, b) == IF a <= b THEN a ELSE b

\* ---- contents of the Headline Queue ---------------------------------------
\* Three kinds of rows: every field filled in, the two numeric fields left
\* unset, and nothing filled in at all (Airtable omits unset fields).
ProfileFull ==
  [headline |-> "Succulents 101", article_prompt |-> "Write a beginner guide",
   seo_keyword |-> "succulent care", angle |-> "how-to",
   subject |-> "succulents", batch_id |-> "batch-7",
   target_word_count |-> 1500, priority_order |-> 3]

ProfileNoNumbers ==
  [headline |-> "Ferns in shade", article_prompt |-> "Explain shade ferns",
   seo_keyword |-> "shade ferns", angle |-> "explainer",
   subject |-> "ferns", batch_id |-> "batch-8"]

ProfileEmpty == EmptyDict

Profiles == <<ProfileFull, ProfileNoNumbers, ProfileEmpty>>

\* the kinds of rows are dealt to the row ids in turn, starting anywhere
Rotations == 0..(Len(Profiles) - 1)
ProfileAt(k, h) == Profiles[((h + k) % Len(Profiles)) + 1]

\* publish_date values, one distinct date per row: in the order of the row
\* ids or against it
Dates == {[h \in HeadlineIds |-> h], [h \in HeadlineIds |-> NumHeadlines + 1 - h]}

\* ---- the Airtable service ---------------------------------------------------
\* sort[0][field]=publish_date, sort[0][direction]=asc over a set of row ids
RECURSIVE SortByPublishDate(_, _)
SortByPublishDate(S, hl) ==
  IF S = {} THEN <<>>
  ELSE LET m == CHOOSE x \in S :
                  \A y \in S : hl[x].publish_date <= hl[y].publish_date
       IN <<[id |-> m, fields |-> hl[m]]>> \o SortByPublishDate(S \ {m}, hl)

\* GET Headline Queue, filterByFormula {status} = "approved", sorted
QueryApproved(hl) ==
  SortByPublishDate({h \in DOMAIN hl : Get(hl[h], "status", "") = "approved"}, hl)

\* GET Articles, fields[]=headline_queue_id, filterByFormula {headline_queue_id} != ''
ProjectHeadlineQueueId(a) ==
  [id |-> a.id, fields |-> Restrict(a.fields, {"headline_queue_id"})]

RECURSIVE QueryArticles(_)
QueryArticles(arts) ==
  IF arts = <<>> THEN <<>>
  ELSE (IF Get(Head(arts).fields, "headline_queue_id", NoId) # NoId
          THEN <<ProjectHeadlineQueueId(Head(arts))>> ELSE <<>>)
       \o QueryArticles(Tail(arts))

\* one page of a list response: at most PageSize records, and the rest of
\* the result, which the opaque offset cursor stands for
PageRecords(items) == SubSeq(items, 1, Min(PageSize, Len(items)))
\* faulty variant: the cursor is ignored, only the first page is read
PageRestNone(items) == <<>>
PageRest(items) == SubSeq(items, Min(PageSize, Len(items)) + 1, Len(items))

\* the text fields of an Article; the empty string is the empty value of one
TextFields ==
  {"article_title", "prompt", "seo_keyword", "angle", "subject", "batch_id",
   "pipeline_status"}

\* the records Airtable returns do not include fields with an empty value
OmitEmpty(fields) ==
  Restrict(fields, {k \in DOMAIN fields : ~(k \in TextFields /\ fields[k] = "")})

\* POST one record: Airtable assigns a fresh record id and returns the
\* record it has stored
NewArticleId(arts) == Len(arts) + 1
CreatedRecord(arts, fields) ==
  [id |-> NewArticleId(arts), fields |-> OmitEmpty(fields)]

\* PATCH one record by id
UpdatedTable(hl, record_id, fields) ==
  [hl EXCEPT ![record_id] = Merge(fields, @)]

\* ---- pure parts of the script -------------------------------------------------
\* faulty variant: the de-duplication set is never filled
ExistingHeadlineIdsEmpty(existing) == {}

\* get_existing_headline_ids: the set of non-empty headline_queue_id values
ExistingHeadlineIds(existing) ==
  {Get(existing[i].fields, "headline_queue_id", NoId) : i \in 1..Len(existing)}
    \ {NoId}

\* faulty variant: the membership test always fails
IsTransferredNever(rec, ids) == FALSE

\* faulty variant: the membership test always succeeds
IsTransferredAlways(rec, ids) == TRUE

\* main, Step 2: rec["id"] in existing_ids
IsTransferred(rec, ids) == rec.id \in ids

\* faulty variant: the new headlines come out in reverse order
NewHeadlinesReversed(recs, ids) ==
  LET new == SelectSeq(recs, LAMBDA rec : ~IsTransferred(rec, ids))
  IN [i \in 1..Len(new) |-> new[Len(new) + 1 - i]]

NewHeadlines(recs, ids) == SelectSeq(recs, LAMBDA rec : ~IsTransferred(rec, ids))
SkippedHeadlines(recs, ids) == SelectSeq(recs, LAMBDA rec : IsTransferred(rec, ids))

\* faulty variant: the word-count default is lost
ArticleFieldsZeroDefault(rec) ==
  LET f == rec.fields
  IN [article_title |-> Get(f, "headline", ""),
      prompt |-> Get(f, "article_prompt", ""),
      seo_keyword |-> Get(f, "seo_keyword", ""),
      angle |-> Get(f, "angle", ""),
      subject |-> Get(f, "subject", ""),
      batch_id |-> Get(f, "batch_id", ""),
      target_word_count |-> Get(f, "target_word_count", 0),
      headline_queue_id |-> rec.id,
      pipeline_status |-> "queued",
      priority_order |-> Get(f, "priority_order", DefaultPriority)]

\* main, Step 3: the fields of the Article created for a headline
ArticleFields(rec) ==
  LET f == rec.fields
  IN [article_title |-> Get(f, "headline", ""),
      prompt |-> Get(f, "article_prompt", ""),
      seo_keyword |-> Get(f, "seo_keyword", ""),
      angle |-> Get(f, "angle", ""),
      subject |-> Get(f, "subject", ""),
      batch_id |-> Get(f, "batch_id", ""),
      target_word_count |-> Get(f, "target_word_count", DefaultWordCount),
      headline_queue_id |-> rec.id,
      pipeline_status |-> "queued",
      priority_order |-> Get(f, "priority_order", DefaultPriority)]

\* faulty variant: the Article's pipeline status is written to the headline
TransferUpdateWrongStatus(art) ==
  [status |-> "queued", articles_record_id |-> art.id]

\* faulty variant: the back-reference is not written
TransferUpdateStatusOnly(art) == [status |-> "sent_to_news_agent"]

\* main, Step 3: the fields written to the headline after its create
TransferUpdateFields(art) ==
  [status |-> "sent_to_news_agent", articles_record_id |-> art.id]

\* main, stuck rows: the fields written to an already-transferred headline
StuckUpdateFields == [status |-> "sent_to_news_agent"]

\* faulty variants: the dry-run test is missing, or the update never happens
StuckWritesAlways(dry) == TRUE
StuckWritesNever(dry) == FALSE

\* main, stuck rows: "if not DRY_RUN" around the update
StuckWrites(dry) == ~dry

\* where main goes once both fetches are complete
AfterPartition(new, skip, dry) ==
  IF new = <<>> THEN (IF skip # <<>> THEN "update_stuck" ELSE "done")
  ELSE IF dry THEN "done"
  ELSE "create"

\* an exception out of airtable_get is not caught in main
AfterReadFailure == "aborted"

\* an exception out of the stuck-row update is not caught in main
AfterStuckFailure == "aborted"

\* faulty variant: the update is not made right after the create
AfterCreateSkipsUpdate == "summary"

\* the statement after a successful create
AfterCreate == "update"

\* main, Step 5: the "• title" lines of the notification, one per entry
\* of created_articles
NotifyTitles(created) ==
  [i \in 1..Len(created) |-> Get(created[i].fields, "article_title", "(no title)")]

\* faulty variant: a failing webhook call is not caught
AfterNotifyRaises(ok) == IF ok THEN "done" ELSE "aborted"

\* notify_discord: try/except around the webhook call, then main returns
AfterNotify(ok) == "done"

\* the for loop over new_headlines: next row, or the summary
AfterRow(i, n) == IF i < n THEN "create" ELSE "summary"

\* ---- history ----------------------------------------------------------------
Call(op, id, ok) == [op |-> op, id |-> id, ok |-> ok]

Logged(p, c) == calls' = [calls EXCEPT ![p] = Append(@, c)]

HasCall(p, op, ok) == \E i \in 1..Len(calls[p]) : calls[p][i].op = op /\ calls[p][i].ok = ok

WriteOps == {"create", "update"}

\* how a finished run went, as far as the next run is concerned
RunOutcome(p) ==
  IF DRY_RUN[p] THEN "dry"
  ELSE IF HasCall(p, "get_headlines", FALSE) \/ HasCall(p, "get_articles", FALSE)
          \/ HasCall(p, "create", FALSE)
       THEN "failed"
  ELSE "clean"

\* the headlines that were approved when the run of p read the Headline
\* Queue and have no Article: their create failed or was never reached
LeftByRun(p) ==
  {h \in HeadlineIds :
     /\ startHeadlines[p][h].status = "approved"
     /\ \A i \in 1..Len(articles) :
          Get(articles[i].fields, "headline_queue_id", NoId) # h}

\* ---- initial state ------------------------------------------------------------
HeadlineRow(profile, date) ==
  Merge([status |-> "pending", publish_date |-> date], profile)

InitState(rel, rots) ==
  /\ \E k \in rots, d \in Dates :
       headlines = [h \in HeadlineIds |-> HeadlineRow(ProfileAt(k, h), d[h])]
  /\ articles = <<>>
  /\ runs = 0
  /\ pc = [p \in Procs |-> "idle"]
  /\ DRY_RUN = [p \in Procs |-> FALSE]
  /\ DISCORD_WEBHOOK = [p \in Procs |-> FALSE]
  /\ all_records = [p \in Procs |-> <<>>]
  /\ offset = [p \in Procs |-> FALSE]
  /\ remaining = [p \in Procs |-> <<>>]
  /\ approved = [p \in Procs |-> <<>>]
  /\ existing_ids = [p \in Procs |-> {}]
  /\ new_headlines = [p \in Procs |-> <<>>]
  /\ skipped = [p \in Procs |-> <<>>]
  /\ idx = [p \in Procs |-> 1]
  /\ article = [p \in Procs |-> <<>>]
  /\ created_articles = [p \in Procs |-> <<>>]
  /\ calls = [p \in Procs |-> <<>>]
  /\ startHeadlines = [p \in Procs |-> <<>>]
  /\ startArticles = [p \in Procs |-> <<>>]
  /\ prevRun = "none"
  /\ prevLeft = {}
  /\ addedSince = FALSE
  /\ addedBetween = FALSE
  /\ message = [p \in Procs |-> <<>>]
  /\ overlap = FALSE
  /\ settled = FALSE
  /\ reliable = rel

Init == InitState(FALSE, Rotations)

\* outcomes of an HTTP call, of the --dry-run flag and of the webhook
\* setting: anything, or, in a reliable environment, only successful calls
\* of non-dry runs with the webhook configured
Outcomes == IF reliable THEN {TRUE} ELSE BOOLEAN
DryChoices == IF reliable THEN {FALSE} ELSE BOOLEAN
HookChoices == IF reliable THEN {TRUE} ELSE BOOLEAN

\* ---- the environment ------------------------------------------------------------
\* An editor approves a headline, at any moment: nothing ties the editors
\* to the job's schedule.
Approve(h) ==
  /\ ~settled
  /\ headlines[h].status = "pending"
  /\ headlines' = UpdatedTable(headlines, h, [status |-> "approved"])
  /\ addedSince' = TRUE
  /\ UNCHANGED <<articles, pc, runVars, fetchVars, mainVars, calls, prevRun,
                 prevLeft, addedBetween, message, overlap, settled, reliable>>

\* ---- one run of the script --------------------------------------------------------
\* python3 transfer_headlines.py [--dry-run]
StartRun(p) ==
  /\ pc[p] = "idle"
  /\ settled \/ runs < MaxRuns
  /\ runs' = IF settled THEN runs ELSE runs + 1
  /\ overlap' = (overlap \/ \E q \in Procs \ {p} : pc[q] # "idle")
  /\ \E dry \in DryChoices, hook \in HookChoices :
       /\ DRY_RUN' = [DRY_RUN EXCEPT ![p] = dry]
       /\ DISCORD_WEBHOOK' = [DISCORD_WEBHOOK EXCEPT ![p] = hook]
  /\ pc' = [pc EXCEPT ![p] = "get_headlines"]
  /\ startHeadlines' = [startHeadlines EXCEPT ![p] = headlines]
  /\ startArticles' = [startArticles EXCEPT ![p] = articles]
  /\ UNCHANGED <<tables, fetchVars, mainVars, calls, prevRun, prevLeft,
                 addedSince, addedBetween, message, settled, reliable>>

\* airtable_get(HEADLINE_TABLE, ...): one page request.  The request without
\* a cursor is the moment the run reads the Headline Queue.
GetHeadlinesPage(p) ==
  /\ pc[p] = "get_headlines"
  /\ IF offset[p]
       THEN UNCHANGED <<startHeadlines, addedSince, addedBetween>>
       ELSE /\ startHeadlines' = [startHeadlines EXCEPT ![p] = headlines]
            /\ addedBetween' = addedSince
            /\ addedSince' = FALSE
  /\ \E ok \in Outcomes :
       /\ Logged(p, Call("get_headlines", NoId, ok))
       /\ IF ~ok
            THEN /\ pc' = [pc EXCEPT ![p] = AfterReadFailure]
                 /\ UNCHANGED <<fetchVars, approved>>
            ELSE LET items == IF offset[p] THEN remaining[p]
                              ELSE QueryApproved(headlines)
                     got == all_records[p] \o PageRecords(items)
                     rest == PageRest(items)
                 IN IF rest # <<>>
                      THEN /\ all_records' = [all_records EXCEPT ![p] = got]
                           /\ offset' = [offset EXCEPT ![p] = TRUE]
                           /\ remaining' = [remaining EXCEPT ![p] = rest]
                           /\ UNCHANGED <<pc, approved>>
                      ELSE /\ approved' = [approved EXCEPT ![p] = got]
                           /\ all_records' = [all_records EXCEPT ![p] = <<>>]
                           /\ offset' = [offset EXCEPT ![p] = FALSE]
                           /\ remaining' = [remaining EXCEPT ![p] = <<>>]
                           /\ pc' = [pc EXCEPT ![p] =
                                       IF got = <<>> THEN "done" ELSE "get_articles"]
  /\ UNCHANGED <<tables, runs, DRY_RUN, DISCORD_WEBHOOK, startArticles,
                 existing_ids, new_headlines, skipped, idx, article,
                 created_articles, prevRun, prevLeft, message, overlap, settled,
                 reliable>>

\* get_existing_headline_ids: one page request of airtable_get(ARTICLES_TABLE, ...),
\* and, after the last page, the partition of main's Step 2
GetArticlesPage(p) ==
  /\ pc[p] = "get_articles"
  /\ \E ok \in Outcomes :
       /\ Logged(p, Call("get_articles", NoId, ok))
       /\ IF ~ok
            THEN /\ pc' = [pc EXCEPT ![p] = AfterReadFailure]
                 /\ UNCHANGED <<fetchVars, existing_ids, new_headlines, skipped>>
            ELSE LET items == IF offset[p] THEN remaining[p]
                              ELSE QueryArticles(articles)
                     got == all_records[p] \o PageRecords(items)
                     rest == PageRest(items)
                     ids == ExistingHeadlineIds(got)
                     new == NewHeadlines(approved[p], ids)
                     skip == SkippedHeadlines(approved[p], ids)
                 IN IF rest # <<>>
                      THEN /\ all_records' = [all_records EXCEPT ![p] = got]
                           /\ offset' = [offset EXCEPT ![p] = TRUE]
                           /\ remaining' = [remaining EXCEPT ![p] = rest]
                           /\ UNCHANGED <<pc, existing_ids, new_headlines, skipped>>
                      ELSE /\ existing_ids' = [existing_ids EXCEPT ![p] = ids]
                           /\ new_headlines' = [new_headlines EXCEPT ![p] = new]
                           /\ skipped' = [skipped EXCEPT ![p] = skip]
                           /\ all_records' = [all_records EXCEPT ![p] = <<>>]
                           /\ offset' = [offset EXCEPT ![p] = FALSE]
                           /\ remaining' = [remaining EXCEPT ![p] = <<>>]
                           /\ pc' = [pc EXCEPT ![p] =
                                       AfterPartition(new, skip, DRY_RUN[p])]
  /\ UNCHANGED <<tables, runVars, approved, idx, article, created_articles,
                 histVars>>

\* main, "if not new_headlines": the loop over skipped.  In a dry run the
\* loop body does nothing; otherwise each iteration is one update call,
\* made outside any try block.
UpdateStuck(p) ==
  /\ pc[p] = "update_stuck"
  /\ IF ~StuckWrites(DRY_RUN[p])
       THEN /\ pc' = [pc EXCEPT ![p] = "done"]
            /\ UNCHANGED <<headlines, idx, calls>>
       ELSE LET rec == skipped[p][idx[p]]
            IN \E ok \in Outcomes :
                 /\ Logged(p, Call("update", rec.id, ok))
                 /\ IF ok
                      THEN /\ headlines' = UpdatedTable(headlines, rec.id,
                                                        StuckUpdateFields)
                           /\ idx' = [idx EXCEPT ![p] = @ + 1]
                           /\ pc' = [pc EXCEPT ![p] =
                                       IF idx[p] < Len(skipped[p])
                                         THEN "update_stuck" ELSE "done"]
                      ELSE /\ pc' = [pc EXCEPT ![p] = AfterStuckFailure]
                           /\ UNCHANGED <<headlines, idx>>
  /\ UNCHANGED <<articles, runVars, fetchVars, approved, existing_ids,
                 new_headlines, skipped, article, created_articles, histVars>>

\* main, Step 3, first half of the try block: airtable_create_record
CreateArticle(p) ==
  /\ pc[p] = "create"
  /\ LET rec == new_headlines[p][idx[p]]
     IN \E ok \in Outcomes :
          /\ Logged(p, Call("create", rec.id, ok))
          /\ IF ok
               THEN LET created == CreatedRecord(articles, ArticleFields(rec))
                    IN /\ articles' = Append(articles, created)
                       /\ article' = [article EXCEPT ![p] = created]
                       /\ pc' = [pc EXCEPT ![p] = AfterCreate]
                       /\ UNCHANGED idx
               ELSE /\ pc' = [pc EXCEPT ![p] =
                                AfterRow(idx[p], Len(new_headlines[p]))]
                    /\ idx' = [idx EXCEPT ![p] = @ + 1]
                    /\ UNCHANGED <<articles, article>>
  /\ UNCHANGED <<headlines, runVars, fetchVars, approved, existing_ids,
                 new_headlines, skipped, created_articles, histVars>>

\* main, Step 3, second half of the try block: airtable_update_record and
\* created_articles.append
UpdateHeadline(p) ==
  /\ pc[p] = "update"
  /\ LET rec == new_headlines[p][idx[p]]
     IN \E ok \in Outcomes :
          /\ Logged(p, Call("update", rec.id, ok))
          /\ IF ok
               THEN /\ headlines' = UpdatedTable(headlines, rec.id,
                                                 TransferUpdateFields(article[p]))
                    /\ created_articles' =
                         [created_articles EXCEPT ![p] = Append(@, article[p])]
               ELSE UNCHANGED <<headlines, created_articles>>
          /\ pc' = [pc EXCEPT ![p] = AfterRow(idx[p], Len(new_headlines[p]))]
          /\ idx' = [idx EXCEPT ![p] = @ + 1]
  /\ UNCHANGED <<articles, runVars, fetchVars, approved, existing_ids,
                 new_headlines, skipped, article, histVars>>

\* main, Steps 4 and 5: the summary, then notify_discord when something was
\* transferred; the webhook call is inside try/except
Notify(p) ==
  /\ pc[p] = "summary"
  /\ IF created_articles[p] # <<>> /\ DISCORD_WEBHOOK[p]
       THEN \E ok \in Outcomes :
              /\ Logged(p, Call("notify", Len(created_articles[p]), ok))
              /\ message' = [message EXCEPT ![p] = NotifyTitles(created_articles[p])]
              /\ pc' = [pc EXCEPT ![p] = AfterNotify(ok)]
       ELSE /\ pc' = [pc EXCEPT ![p] = "done"]
            /\ UNCHANGED <<calls, message>>
  /\ UNCHANGED <<tables, runVars, fetchVars, mainVars, prevRun, prevLeft,
                 addedSince, addedBetween, overlap, settled, reliable>>

\* the process ends, normally or with the uncaught exception, and nothing of
\* it is left but the tables
Exit(p) ==
  /\ pc[p] \in {"done", "aborted"}
  /\ pc' = [pc EXCEPT ![p] = "idle"]
  /\ prevRun' = RunOutcome(p)
  /\ prevLeft' = LeftByRun(p)
  /\ all_records' = [all_records EXCEPT ![p] = <<>>]
  /\ offset' = [offset EXCEPT ![p] = FALSE]
  /\ remaining' = [remaining EXCEPT ![p] = <<>>]
  /\ approved' = [approved EXCEPT ![p] = <<>>]
  /\ existing_ids' = [existing_ids EXCEPT ![p] = {}]
  /\ new_headlines' = [new_headlines EXCEPT ![p] = <<>>]
  /\ skipped' = [skipped EXCEPT ![p] = <<>>]
  /\ idx' = [idx EXCEPT ![p] = 1]
  /\ article' = [article EXCEPT ![p] = <<>>]
  /\ created_articles' = [created_articles EXCEPT ![p] = <<>>]
  /\ calls' = [calls EXCEPT ![p] = <<>>]
  /\ message' = [message EXCEPT ![p] = <<>>]
  /\ DRY_RUN' = [DRY_RUN EXCEPT ![p] = FALSE]
  /\ DISCORD_WEBHOOK' = [DISCORD_WEBHOOK EXCEPT ![p] = FALSE]
  /\ startHeadlines' = [startHeadlines EXCEPT ![p] = <<>>]
  /\ startArticles' = [startArticles EXCEPT ![p] = <<>>]
  /\ UNCHANGED <<tables, runs, addedSince, addedBetween, overlap, settled,
                 reliable>>

Run(p) ==
  \/ StartRun(p)
  \/ GetHeadlinesPage(p)
  \/ GetArticlesPage(p)
  \/ UpdateStuck(p)
  \/ CreateArticle(p)
  \/ UpdateHeadline(p)
  \/ Notify(p)
  \/ Exit(p)

\* runs that do not overlap: one process at a time
Next ==
  \/ \E h \in HeadlineIds : Approve(h)
  \/ \E p \in SeqProcs : Run(p)

Spec == Init /\ [][Next]_vars

\* ---- runs that may overlap ---------------------------------------------------
\* Nothing in the script coordinates two invocations: the steps of two
\* processes interleave freely, with each other and with the editors.  The
\* race needs no failing call and no dry run, and the contents of the
\* headline fields play no part in it: the environment is reliable and the
\* kinds of rows are dealt one way.
InitConc == InitState(TRUE, {0})

NextConc ==
  \/ \E h \in HeadlineIds : Approve(h)
  \/ \E p \in Procs : Run(p)

SpecConc == InitConc /\ [][NextConc]_vars

\* ---- runs that keep being executed ------------------------------------------------
\* From some point between two runs on, editors approve nothing more and the
\* environment is reliable.
Settle ==
  /\ ~settled
  /\ \A p \in Procs : pc[p] = "idle"
  /\ settled' = TRUE
  /\ reliable' = TRUE
  /\ UNCHANGED <<tables, pc, runVars, fetchVars, mainVars, calls, prevRun,
                 prevLeft, addedSince, addedBetween, message, overlap>>

\* the contents of the headline fields play no part in the control flow:
\* the kinds of rows are dealt one way
InitLive == InitState(FALSE, {0})

NextLive ==
  \/ Next
  \/ Settle

\* the trigger (cron, Zapier) keeps starting the job, and a started run
\* keeps taking its next step
SpecLive == InitLive /\ [][NextLive]_vars /\ WF_vars(\E p \in SeqProcs : Run(p))

TypeOK ==
  /\ pc \in [Procs -> {"idle", "get_headlines", "get_articles", "update_stuck",
                       "create", "update", "summary", "done", "aborted"}]
  /\ runs \in 0..MaxRuns

\* ---- vocabulary of the properties ---------------------------------------------
Running(p) == pc[p] # "idle"

HeadlineQueueIdsOf(arts) ==
  {Get(arts[i].fields, "headline_queue_id", NoId) : i \in 1..Len(arts)} \ {NoId}

\* headlines for which the current run of p had a successful create
CreatedByRun(p) ==
  {calls[p][i].id : i \in {j \in 1..Len(calls[p]) :
                             calls[p][j].op = "create" /\ calls[p][j].ok}}

\* headlines for which the current run of p had a successful update
MarkedByRun(p) ==
  {calls[p][i].id : i \in {j \in 1..Len(calls[p]) :
                             calls[p][j].op = "update" /\ calls[p][j].ok}}

\* the Headline Queue differs from an earlier one by approvals only: what
\* the editors do to it, as opposed to the job
ApprovalsOnly(old, new) ==
  \A h \in HeadlineIds :
    new[h] # old[h] =>
      /\ old[h].status = "pending"
      /\ new[h] = Merge([status |-> "approved"], old[h])

\* approved headlines that already had an Article when the run of p started
StuckAtStart(p) ==
  {h \in HeadlineIds : /\ startHeadlines[p][h].status = "approved"
                       /\ h \in HeadlineQueueIdsOf(startArticles[p])}

\* C1: across sequential runs in which any create or update call may fail,
\* no two Article records carry the same headline_queue_id.
C1_NoDuplicateArticle ==
  \A i, j \in 1..Len(articles) :
    i # j => articles[i].fields.headline_queue_id
               # articles[j].fields.headline_queue_id

\* a second run has skipped a headline whose Article exists and transferred
\* another one
C1_Witness ==
  /\ pc[1] = "done" /\ ~DRY_RUN[1]
  /\ skipped[1] # <<>> /\ new_headlines[1] # <<>>
  /\ Len(articles) = 2

\* C2 as stated: the second of two successive non-dry runs, with no headline
\* approved in between (here: none since the first run read the Headline
\* Queue), creates no Article.
C2_Original ==
  \A p \in SeqProcs :
    (Running(p) /\ ~DRY_RUN[p] /\ prevRun \in {"failed", "clean"} /\ ~addedBetween)
      => CreatedByRun(p) = {}

\* the partition of main's Step 2 has been computed in the current run of p:
\* the run is in one of the loops after it or at the summary, has ended
\* normally after reading Articles, or was aborted by a failed stuck-row
\* update (a run aborted by a failed page request has no partition)
PartitionDone(p) ==
  \/ pc[p] \in {"update_stuck", "create", "update", "summary"}
  \/ pc[p] = "done" /\ HasCall(p, "get_articles", TRUE)
  \/ pc[p] = "aborted" /\ HasCall(p, "update", FALSE)

IdsOf(recs) == {recs[i].id : i \in 1..Len(recs)}

\* ids for which the current run of p has issued a create call
CreateAttempts(p) ==
  {calls[p][i].id : i \in {j \in 1..Len(calls[p]) : calls[p][j].op = "create"}}

\* C2 amended: in the second of two successive non-dry runs, with no headline
\* approved since the first run read the Headline Queue, the new headlines
\* are exactly the headlines the first run read as approved and left
\* without an Article (their create failed, or the first run aborted on a
\* page request before reaching them); the second run issues creates for
\* those only, one Article per successful create, and none for a headline
\* that already has an Article.  When no page request and no create of the
\* first run failed there is no such headline, and the second run issues
\* no create and leaves Articles as it found it.
C2_SecondRunCreatesNothing ==
  \A p \in SeqProcs :
    (Running(p) /\ ~DRY_RUN[p] /\ prevRun \in {"failed", "clean"} /\ ~addedBetween)
      => /\ CreateAttempts(p) \subseteq prevLeft
         /\ CreatedByRun(p) \cap HeadlineQueueIdsOf(startArticles[p]) = {}
         /\ Len(articles) = Len(startArticles[p]) + Cardinality(CreatedByRun(p))
         /\ PartitionDone(p) => IdsOf(new_headlines[p]) = prevLeft
         /\ prevRun = "clean" => prevLeft = {}
         /\ prevLeft = {} => /\ CreateAttempts(p) = {}
                             /\ articles = startArticles[p]

\* after a first run in which one create failed and one update failed, the
\* second run has created the missing Article and skipped the headline that
\* already had one
C2_Witness ==
  /\ pc[1] = "done" /\ ~DRY_RUN[1] /\ prevRun = "failed" /\ ~addedBetween
  /\ prevLeft # {} /\ CreatedByRun(1) = prevLeft
  /\ skipped[1] # <<>>

\* after a first run with no failed read and no failed create, the second
\* run found headlines still approved and skipped them all
C2_WitnessClean ==
  /\ pc[1] = "done" /\ ~DRY_RUN[1] /\ prevRun = "clean" /\ ~addedBetween
  /\ skipped[1] # <<>> /\ Len(articles) > 0

\* C3 as stated: after a run that ends normally, every headline the run
\* marked as transferred is cross-referenced both ways with its Article.
C3_CrossReference ==
  \A p \in SeqProcs :
    (pc[p] = "done" /\ ~DRY_RUN[p]) =>
      \A h \in MarkedByRun(p) :
        \A i \in 1..Len(articles) :
          (articles[i].fields.headline_queue_id = h)
            <=> (Get(headlines[h], "articles_record_id", NoId) = articles[i].id)

\* C4 as stated: a headline that is approved and already has an Article when
\* a non-dry run starts gets no new Article and is sent_to_news_agent when
\* the run ends, whatever else the run fetched.
C4_Original ==
  \A p \in SeqProcs :
    (pc[p] = "done" /\ ~DRY_RUN[p]) =>
      \A h \in StuckAtStart(p) :
        /\ h \notin CreatedByRun(p)
        /\ headlines[h].status = "sent_to_news_agent"

\* C4 amended: such a headline never gets a new Article; when the run
\* fetched no new headline and ends normally it is sent_to_news_agent, and
\* when the run fetched a new headline it is left approved.
C4_StuckRowReconciled ==
  \A p \in SeqProcs :
    (Running(p) /\ ~DRY_RUN[p]) =>
      \A h \in StuckAtStart(p) :
        /\ \A i \in 1..Len(calls[p]) :
             ~(calls[p][i].op = "create" /\ calls[p][i].id = h)
        /\ (pc[p] = "done" /\ new_headlines[p] = <<>>)
             => headlines[h].status = "sent_to_news_agent"
        /\ (pc[p] = "done" /\ new_headlines[p] # <<>>)
             => headlines[h].status = "approved"

\* a run with nothing new has reconciled a stuck headline
C4_Witness ==
  /\ pc[1] = "done" /\ ~DRY_RUN[1] /\ new_headlines[1] = <<>>
  /\ \E h \in StuckAtStart(1) : headlines[h].status = "sent_to_news_agent"

\* C5: a dry run issues no create, update or notification call on any path
\* and leaves both tables as they were when it started: the Headline Queue
\* holds no change but the editors' approvals.
C5_DryRunWritesNothing ==
  \A p \in SeqProcs :
    (Running(p) /\ DRY_RUN[p]) =>
      /\ \A i \in 1..Len(calls[p]) :
           calls[p][i].op \in {"get_headlines", "get_articles"}
      /\ ApprovalsOnly(startHeadlines[p], headlines)
      /\ articles = startArticles[p]

\* a dry run went through the stuck-row branch
C5_Witness ==
  /\ pc[1] = "done" /\ DRY_RUN[1]
  /\ new_headlines[1] = <<>> /\ skipped[1] # <<>>

\* positions in the Articles table of the rows created since the run of p started
NewArticleRows(p) == (Len(startArticles[p]) + 1)..Len(articles)

NoFailedCall(p) == \A i \in 1..Len(calls[p]) : calls[p][i].ok

\* C6: when the create for a new headline succeeds and the update that
\* follows it succeeds, the headline is sent_to_news_agent, its
\* articles_record_id is the id of the Article created for it in that step,
\* and that Article's headline_queue_id is the headline's id.
C6_TransferLinksBothWays ==
  \A p \in SeqProcs :
    \A i \in 1..(Len(calls[p]) - 1) :
      LET c == calls[p][i]
          u == calls[p][i + 1]
      IN (c.op = "create" /\ c.ok /\ u.op = "update" /\ u.ok) =>
           /\ u.id = c.id
           /\ headlines[c.id].status = "sent_to_news_agent"
           /\ \E j \in NewArticleRows(p) :
                /\ articles[j].fields.headline_queue_id = c.id
                /\ Get(headlines[c.id], "articles_record_id", NoId) = articles[j].id

\* a create and the update after it have both succeeded
C6_Witness ==
  /\ pc[1] = "done"
  /\ \E i \in 1..(Len(calls[1]) - 1) :
       /\ calls[1][i].op = "create" /\ calls[1][i].ok
       /\ calls[1][i + 1].op = "update" /\ calls[1][i + 1].ok

\* the Article the spec prescribes for a headline record; a text field the
\* headline leaves unset is empty in the Article, which the table shows as
\* a field left out
MatchesHeadline(fields, rec) ==
  /\ fields.headline_queue_id = rec.id
  /\ fields.pipeline_status = "queued"
  /\ Get(fields, "article_title", "") = Get(rec.fields, "headline", "")
  /\ Get(fields, "prompt", "") = Get(rec.fields, "article_prompt", "")
  /\ Get(fields, "seo_keyword", "") = Get(rec.fields, "seo_keyword", "")
  /\ Get(fields, "angle", "") = Get(rec.fields, "angle", "")
  /\ Get(fields, "subject", "") = Get(rec.fields, "subject", "")
  /\ Get(fields, "batch_id", "") = Get(rec.fields, "batch_id", "")
  /\ fields.target_word_count =
       (IF "target_word_count" \in DOMAIN rec.fields
          THEN rec.fields.target_word_count ELSE 1000)
  /\ fields.priority_order =
       (IF "priority_order" \in DOMAIN rec.fields
          THEN rec.fields.priority_order ELSE 1)

\* C7: in a non-dry run in which no call fails, every fetched approved
\* headline whose id is not among the headline_queue_id values read at the
\* start gets exactly one Article, with the prescribed field values, and no
\* Article is created for any other headline.
C7_OneArticlePerNewHeadline ==
  \A p \in SeqProcs :
    (pc[p] = "done" /\ ~DRY_RUN[p] /\ NoFailedCall(p)) =>
      /\ \A k \in 1..Len(approved[p]) :
           LET rec == approved[p][k]
               rows == {j \in NewArticleRows(p) :
                          articles[j].fields.headline_queue_id = rec.id}
           IN IF rec.id \notin existing_ids[p]
                THEN /\ Cardinality(rows) = 1
                     /\ \A j \in rows : MatchesHeadline(articles[j].fields, rec)
                ELSE rows = {}
      /\ \A j \in NewArticleRows(p) :
           \E k \in 1..Len(approved[p]) :
             /\ approved[p][k].id = articles[j].fields.headline_queue_id
             /\ approved[p][k].id \notin existing_ids[p]
             /\ startHeadlines[p][approved[p][k].id].status = "approved"

\* a failure-free run has transferred a headline with unset numeric fields
\* next to a headline it had to skip
C7_Witness ==
  /\ pc[1] = "done" /\ ~DRY_RUN[1] /\ NoFailedCall(1)
  /\ skipped[1] # <<>>
  /\ \E k \in 1..Len(new_headlines[1]) :
       "target_word_count" \notin DOMAIN new_headlines[1][k].fields

\* the rows a run has to process once both fetches are complete
RowsToProcess(p) == IF new_headlines[p] = <<>> THEN skipped[p] ELSE new_headlines[p]

\* C8 as stated: a failing per-row write never aborts the run; every row of
\* the run is still attempted.
C8_WriteFailureNeverAborts ==
  \A p \in SeqProcs :
    (pc[p] \in {"done", "aborted"} /\ ~DRY_RUN[p]
       /\ ~HasCall(p, "get_headlines", FALSE) /\ ~HasCall(p, "get_articles", FALSE))
      => /\ pc[p] = "done"
         /\ \A k \in 1..Len(RowsToProcess(p)) :
              \E i \in 1..Len(calls[p]) :
                /\ calls[p][i].op \in WriteOps
                /\ calls[p][i].id = RowsToProcess(p)[k].id

\* headlines that have an Article created by the current run of p and are
\* still approved
CreatedStillApproved(p) ==
  {h \in CreatedByRun(p) : headlines[h].status = "approved"}

\* the row whose create has succeeded and whose update has not been attempted
InFlight(p) == IF pc[p] = "update" THEN {new_headlines[p][idx[p]].id} ELSE {}

UpdateFailed(p) ==
  {calls[p][i].id : i \in {j \in 1..Len(calls[p]) :
                             calls[p][j].op = "update" /\ ~calls[p][j].ok}}

\* C9 as stated: at every point of a non-dry run at most one headline has an
\* Article created by this run while its status is still approved.
C9_Original ==
  \A p \in SeqProcs :
    (Running(p) /\ ~DRY_RUN[p]) => Cardinality(CreatedStillApproved(p)) <= 1

\* C9 amended: at every point of a non-dry run, a headline that has an
\* Article created by this run while still approved is either the one
\* in-flight row or a row whose update call failed; a successful create is
\* followed by the update of the same row before any other call.
C9_OnlyInFlightOrFailedUpdate ==
  \A p \in SeqProcs :
    (Running(p) /\ ~DRY_RUN[p]) =>
      /\ CreatedStillApproved(p) \subseteq (InFlight(p) \cup UpdateFailed(p))
      /\ Cardinality(CreatedStillApproved(p) \ UpdateFailed(p)) <= 1
      /\ \A i \in 1..Len(calls[p]) :
           (calls[p][i].op = "create" /\ calls[p][i].ok) =>
             IF i < Len(calls[p])
               THEN /\ calls[p][i + 1].op = "update"
                    /\ calls[p][i + 1].id = calls[p][i].id
               ELSE pc[p] = "update"

\* one row's update has failed and the next row is in flight
C9_Witness ==
  /\ pc[1] = "update" /\ ~DRY_RUN[1]
  /\ UpdateFailed(1) # {}
  /\ Cardinality(CreatedStillApproved(1)) = 2

\* the whole result of each fetch, as the tables stood when the run read them
AllHeadlineQueueIds(arts) ==
  {arts[i].fields.headline_queue_id : i \in 1..Len(arts)}

\* C10: no create, update or notification is issued before both fetches
\* have followed their cursors to the end, and a failed page request aborts
\* the run with no write call, no notification and both tables unchanged
\* (the Headline Queue holds no change but the editors' approvals).
C10_ReadsCompleteBeforeWrites ==
  \A p \in SeqProcs :
    /\ (\E i \in 1..Len(calls[p]) : calls[p][i].op \in WriteOps \cup {"notify"}) =>
         /\ approved[p] = QueryApproved(startHeadlines[p])
         /\ existing_ids[p] = AllHeadlineQueueIds(startArticles[p])
         /\ ~offset[p] /\ remaining[p] = <<>>
    /\ (HasCall(p, "get_headlines", FALSE) \/ HasCall(p, "get_articles", FALSE)) =>
         /\ pc[p] = "aborted"
         /\ \A i \in 1..Len(calls[p]) :
              calls[p][i].op \in {"get_headlines", "get_articles"}
         /\ ApprovalsOnly(startHeadlines[p], headlines)
         /\ articles = startArticles[p]

\* a page request failed after an earlier page of the same fetch had succeeded
C10_Witness ==
  /\ pc[1] = "aborted"
  /\ \E i \in 1..(Len(calls[1]) - 1) :
       /\ calls[1][i].op = "get_articles" /\ calls[1][i].ok
       /\ calls[1][i + 1].op = "get_articles" /\ ~calls[1][i + 1].ok

NotifyCalled(p) == HasCall(p, "notify", TRUE) \/ HasCall(p, "notify", FALSE)

TitlesOf(msg) == {msg[i] : i \in 1..Len(msg)}

\* C11 as stated: in a non-dry run with a webhook configured, a notification
\* is sent if at least one Article was created in the Articles table during
\* the run, and lists the title of every Article created during the run;
\* with no Article created, or no webhook, no notification request is sent.
C11_NotifiesEveryCreatedArticle ==
  \A p \in SeqProcs :
    (pc[p] = "done" /\ ~DRY_RUN[p]) =>
      /\ (DISCORD_WEBHOOK[p] /\ NewArticleRows(p) # {}) =>
           /\ NotifyCalled(p)
           /\ \A j \in NewArticleRows(p) :
                Get(articles[j].fields, "article_title", "(no title)")
                  \in TitlesOf(message[p])
      /\ (~DISCORD_WEBHOOK[p] \/ NewArticleRows(p) = {}) => ~NotifyCalled(p)

DuplicateArticle ==
  \E i, j \in 1..Len(articles) :
    i # j /\ articles[i].fields.headline_queue_id
               = articles[j].fields.headline_queue_id

\* C12: when two runs execute concurrently both can read the
\* de-duplication set before either creates its Article, so two Articles
\* with the same headline_queue_id can exist; as long as no two runs have
\* overlapped, no such pair exists, and even an overlapping run creates no
\* Article for an id that was in the de-duplication set it read.
C12_DuplicateOnlyAfterOverlap ==
  /\ DuplicateArticle => overlap
  /\ \A p \in Procs : CreatedByRun(p) \cap existing_ids[p] = {}

\* two overlapping runs have each created an Article for the same headline
C12_Witness ==
  /\ DuplicateArticle
  /\ \E h \in HeadlineIds :
       /\ h \in CreatedByRun(1) /\ h \in CreatedByRun(2)
       /\ h \notin existing_ids[1] /\ h \notin existing_ids[2]

\* the step in which process p issues the webhook request
NotifyStep(p) ==
  /\ Len(calls'[p]) = Len(calls[p]) + 1
  /\ calls'[p][Len(calls'[p])].op = "notify"

\* C13: the notification is attempted only after every per-row create and
\* update of the run has been attempted; whether the webhook call succeeds
\* or fails, it changes neither table and the run ends normally.
C13_NotificationLastAndHarmless ==
  [][\A p \in SeqProcs :
       NotifyStep(p) =>
         /\ headlines' = headlines
         /\ articles' = articles
         /\ pc'[p] = "done"
         /\ ~NotifyCalled(p)
         /\ \A k \in 1..Len(new_headlines[p]) :
              \E i \in 1..Len(calls[p]) :
                /\ calls[p][i].op = "create"
                /\ calls[p][i].id = new_headlines[p][k].id
         /\ \A i \in 1..Len(calls[p]) :
              (calls[p][i].op = "create" /\ calls[p][i].ok) =>
                /\ i < Len(calls[p])
                /\ calls[p][i + 1].op = "update"
                /\ calls[p][i + 1].id = calls[p][i].id]_vars

\* a webhook call has failed at the end of a run that transferred a headline
C13_Witness ==
  /\ pc[1] = "done"
  /\ HasCall(1, "notify", FALSE)
  /\ created_articles[1] # <<>>

\* the create calls of the current run of p, in the order issued
CreateCalls(p) == SelectSeq(calls[p], LAMBDA c : c.op = "create")

\* position of a record id in a list of records
PositionIn(recs, id) == CHOOSE i \in 1..Len(recs) : recs[i].id = id

KeepsOrderOf(part, recs) ==
  /\ \A a \in 1..Len(part) : \E i \in 1..Len(recs) : recs[i].id = part[a].id
  /\ \A a, b \in 1..Len(part) :
       a < b => PositionIn(recs, part[a].id) < PositionIn(recs, part[b].id)

\* C14: the fetched headlines are in ascending publish_date order, the
\* partition keeps their relative order, and the create calls are issued in
\* that order: the k-th create call is for the k-th new headline.
C14_CreatesInFetchOrder ==
  \A p \in SeqProcs :
    /\ \A i, j \in 1..Len(approved[p]) :
         i < j => approved[p][i].fields.publish_date
                    <= approved[p][j].fields.publish_date
    /\ KeepsOrderOf(new_headlines[p], approved[p])
    /\ KeepsOrderOf(skipped[p], approved[p])
    /\ Len(CreateCalls(p)) <= Len(new_headlines[p])
    /\ \A k \in 1..Len(CreateCalls(p)) :
         CreateCalls(p)[k].id = new_headlines[p][k].id

\* two creates were issued, the later-published row with the smaller id last
C14_Witness ==
  /\ Len(CreateCalls(1)) = 2
  /\ CreateCalls(1)[1].id > CreateCalls(1)[2].id
  /\ new_headlines[1][1].fields.publish_date < new_headlines[1][2].fields.publish_date

NoneApproved == \A h \in HeadlineIds : headlines[h].status # "approved"

ArticlesFor(h) ==
  {i \in 1..Len(articles) : articles[i].fields.headline_queue_id = h}

Converged ==
  /\ NoneApproved
  /\ \A h \in HeadlineIds :
       headlines[h].status = "sent_to_news_agent" => Cardinality(ArticlesFor(h)) = 1

\* C15: once no headline is approved any more and non-dry runs whose calls
\* all succeed keep being executed, eventually no headline is approved and
\* every transferred headline has exactly one Article; a run of that phase
\* that finds no new headline leaves no headline approved.
C15_EventuallyAllTransferred ==
  /\ settled ~> Converged
  /\ [](\A p \in SeqProcs :
          (settled /\ pc[p] = "done" /\ new_headlines[p] = <<>>) => NoneApproved)

\* after earlier failures, a run of the settled phase has reconciled a stuck
\* headline and nothing is left to transfer
C15_Witness ==
  /\ settled /\ Converged
  /\ pc[1] = "done" /\ skipped[1] # <<>>
  /\ Len(articles) = NumHeadlines

\* C16: a headline whose status is sent_to_news_agent has at least one
\* Article carrying its id; the job marks no headline whose create failed
\* or was not attempted.
C16_NoLostHeadline ==
  /\ \A h \in HeadlineIds :
       headlines[h].status = "sent_to_news_agent" => ArticlesFor(h) # {}
  /\ \A p \in SeqProcs :
       \A h \in MarkedByRun(p) :
         /\ ArticlesFor(h) # {}
         /\ \A i \in 1..Len(calls[p]) :
              ~(calls[p][i].op = "create" /\ calls[p][i].id = h /\ ~calls[p][i].ok)

\* in one run the create of one row failed and another row was marked
C16_Witness ==
  /\ pc[1] = "done"
  /\ HasCall(1, "create", FALSE)
  /\ MarkedByRun(1) # {}
  /\ \E h \in HeadlineIds : headlines[h].status = "approved" /\ ArticlesFor(h) = {}

\* a step of the job, as opposed to a step of the environment
JobStep(p) == pc'[p] # pc[p] \/ calls'[p] # calls[p]

WrittenKeys == {"status", "articles_record_id"}

\* C17: a run changes only Headline rows its own fetch returned as approved,
\* writes only status = sent_to_news_agent and articles_record_id to them,
\* causes no status transition other than approved -> sent_to_news_agent,
\* changes no existing Article row and deletes no row of either table.
C17_FrameOfARun ==
  [][\A p \in SeqProcs :
       JobStep(p) =>
         /\ DOMAIN headlines' = DOMAIN headlines
         /\ \A h \in DOMAIN headlines :
              headlines'[h] # headlines[h] =>
                /\ \E k \in 1..Len(approved[p]) :
                     /\ approved[p][k].id = h
                     /\ approved[p][k].fields.status = "approved"
                /\ headlines[h].status = "approved"
                /\ headlines'[h].status = "sent_to_news_agent"
                /\ DOMAIN headlines'[h] \subseteq DOMAIN headlines[h] \cup WrittenKeys
                /\ \A key \in DOMAIN headlines[h] \ WrittenKeys :
                     /\ key \in DOMAIN headlines'[h]
                     /\ headlines'[h][key] = headlines[h][key]
         /\ Len(articles') >= Len(articles)
         /\ \A i \in 1..Len(articles) : articles'[i] = articles[i]]_vars

\* a run has marked one headline next to an Article that existed before it
C17_Witness ==
  /\ pc[1] = "done"
  /\ startArticles[1] # <<>>
  /\ Len(articles) > Len(startArticles[1])
  /\ \E h \in MarkedByRun(1) : "articles_record_id" \in DOMAIN headlines[h]
====
